---- MODULE Spec2Model ----
(***************************************************************************)
(* dnsaddhost (utils/dnsaddhost.py): add a host, or add an address to an   *)
(* existing host, through the Netmagis REST API.                           *)
(*                                                                         *)
(* State: the server's host table, and for every running invocation of    *)
(* main() its arguments, local variables, position, the remote calls it    *)
(* has issued and its exit status.  One action per stretch of main()       *)
(* between two remote calls, so that two invocations can interleave at the *)
(* granularity of a remote call.                                           *)
(***************************************************************************)
EXTENDS Integers, Sequences, FiniteSets, TLC

(* ----------------------------- bounds --------------------------------- *)

\* Invocations of the tool in one behaviour (all processes together).
MaxInvocations == 3

\* Processes that may run the tool at the same time in SpecConc.
NProcs == 2

(* ------------------------- values and inputs --------------------------- *)

\* Python's None; an optional value x is None or Some(x).
None == <<>>

Some(x) == <<x>>

\* A local variable that was never assigned (reading it raises
\* UnboundLocalError).
Unbound == <<"unbound", "local">>

Procs == 1 .. NProcs

\* The sequential specification runs one invocation at a time.
SeqProcs == {1}

\* FQDNs given on the command line, as their dot-separated labels.
FQDNs ==
    { <<"host1">>,
      <<"host1", "example", "com">>,
      <<"host1", "nowhere", "org">> }

IPs == {"192.0.2.10", "2001:db8::1"}

\* View names given on the command line.
ViewArgs == {"internal", "default", "nosuch"}

\* -c CONFIG_FILE, or absent.
ConfigArgs == {None, Some("/etc/netmagisrc")}

\* The server's domains and views (name, identifier).
Domains == { [name |-> <<"example", "com">>, iddom |-> 1] }

Views == { [name |-> "internal", idview |-> 1],
           [name |-> "default",  idview |-> 0] }

(* --------------------------- nmcli.core -------------------------------- *)

default_conf_filename == "~/.config/netmagisrc"

get_iddom(domain) ==
    IF \E d \in Domains : d.name = domain
    THEN Some((CHOOSE d \in Domains : d.name = domain).iddom)
    ELSE None

\* (name, domain, iddom) of an FQDN: the first label and the rest.
split_fqdn(fqdn) ==
    IF Len(fqdn) < 2
    THEN [name |-> None, domain |-> None, iddom |-> None]
    ELSE [name   |-> Some(Head(fqdn)),
          domain |-> Some(Tail(fqdn)),
          iddom  |-> get_iddom(Tail(fqdn))]

get_idview(view) ==
    IF \E v \in Views : v.name = view
    THEN Some((CHOOSE v \in Views : v.name = view).idview)
    ELSE None

(* --------------------------- remote API -------------------------------- *)

\* GET /hosts?name=&domain=&view= : the hosts of that name, domain and view.
HostsMatching(hs, name, domain, view) ==
    SelectSeq(hs, LAMBDA h : /\ h.name = name
                             /\ Some(h.iddom) = get_iddom(domain)
                             /\ Some(h.idview) = get_idview(view))

\* POST /hosts : the server stores the payload under a fresh idhost.
HostsAfterPost(hs, data) ==
    Append(hs, [idhost     |-> Len(hs) + 1,
                name       |-> data.name,
                iddom      |-> data.iddom,
                idview     |-> data.idview,
                mac        |-> data.mac,
                idhinfo    |-> data.idhinfo,
                comment    |-> data.comment,
                respname   |-> data.respname,
                respmail   |-> data.respmail,
                iddhcpprof |-> data.iddhcpprof,
                ttl        |-> data.ttl,
                addr       |-> data.addr])

\* PUT /hosts/{idhost} : the server replaces the whole record.
HostsAfterPut(hs, idhost, data) == [hs EXCEPT ![idhost] = data]

(* ------------------------- pieces of main() ---------------------------- *)

\* configfile after "if args.config_file is None: configfile = ...".
ConfigFileOf(config_file) ==
    IF config_file = None THEN Some(default_conf_filename) ELSE Unbound

\* Python's "not x" for an optional integer.
PyNot(x) == x = None \/ x[1] = 0

\* ResolveError with the domain checked before the name.
ResolveErrorDomainFirst(name, iddom, idview) ==
    IF iddom = None THEN Some("Unknown domain")
    ELSE IF name = None THEN Some("Invalid FQDN")
    ELSE IF PyNot(idview) THEN Some("Unknown view")
    ELSE None

\* The message main() dies with after split_fqdn and get_idview, or None.
ResolveError(name, iddom, idview) ==
    IF name = None THEN Some("Invalid FQDN")
    ELSE IF iddom = None THEN Some("Unknown domain")
    ELSE IF PyNot(idview) THEN Some("Unknown view")
    ELSE None

\* BranchOn with "else" in place of "elif nr == 1".
BranchOnAny(nr) == IF nr = 0 THEN "post" ELSE "gethost"

\* Where main() goes on the number of hosts the lookup returned.
BranchOn(nr) ==
    IF nr = 0 THEN "post"
    ELSE IF nr = 1 THEN "gethost"
    ELSE "toomany"

\* NewHostData with a ttl of 0 in place of the inherit sentinel.
NewHostDataZeroTtl(name, iddom, idview, ip) ==
    [name       |-> name,
     iddom      |-> iddom,
     idview     |-> idview,
     mac        |-> "",
     idhinfo    |-> 0,
     comment    |-> "",
     respname   |-> "",
     respmail   |-> "",
     iddhcpprof |-> -1,
     ttl        |-> 0,
     addr       |-> <<ip>>]

\* The payload of the POST request.
NewHostData(name, iddom, idview, ip) ==
    [name       |-> name,
     iddom      |-> iddom,
     idview     |-> idview,
     mac        |-> "",
     idhinfo    |-> 0,
     comment    |-> "",
     respname   |-> "",
     respmail   |-> "",
     iddhcpprof |-> -1,
     ttl        |-> -1,
     addr       |-> <<ip>>]

\* AppendAddr inserting at the front of the list.
AppendAddrFront(data, ip) == [data EXCEPT !.addr = <<ip>> \o @]

\* AppendAddr skipping an address the list already holds.
AppendAddrDedup(data, ip) ==
    IF \E k \in 1 .. Len(data.addr) : data.addr[k] = ip
    THEN data
    ELSE [data EXCEPT !.addr = Append(@, ip)]

\* data ['addr'].append (ip)
AppendAddr(data, ip) == [data EXCEPT !.addr = Append(@, ip)]

(* ------------------------------ state ---------------------------------- *)

VARIABLES
    hosts,      \* the server's host table: hosts[i].idhost = i
    pc,         \* pc[p]: where invocation p is in main()
    args,       \* args[p]: fqdn, ip, view, config_file
    conf_ok,    \* conf_ok[p]: the configuration file is readable
    loc,        \* loc[p]: main()'s local variables
    calls,      \* calls[p]: the remote calls issued, with their outcome
    status,     \* status[p]: the exit status, once terminated
    err,        \* err[p]: the message the invocation died with, or None
    ninv,       \* invocations started so far
    hosts0,     \* hosts0[p]: the host table when invocation p started
    hostsInit,  \* the host table of the initial state
    succ        \* the invocations that exited 0, in order: (fqdn, view, ip)

vars == <<hosts, pc, args, conf_ok, loc, calls, status, err, ninv,
          hosts0, hostsInit, succ>>

NoArgs == [fqdn |-> <<>>, ip |-> "", view |-> "", config_file |-> None]

NoLoc == [configfile |-> Unbound, name |-> None, domain |-> None,
          iddom |-> None, idview |-> None, j |-> <<>>, idhost |-> 0,
          r |-> None, data |-> None]

\* A host record as the server may hold it.
HostRec(idhost, name, addr, mac, ttl) ==
    [idhost     |-> idhost,
     name       |-> name,
     iddom      |-> 1,
     idview     |-> 1,
     mac        |-> mac,
     idhinfo    |-> 0,
     comment    |-> "",
     respname   |-> "",
     respmail   |-> "",
     iddhcpprof |-> -1,
     ttl        |-> ttl,
     addr       |-> addr]

\* Host tables the server may hold when the tool is first run.  The server
\* does not enforce one host per (name, domain, view).
InitHosts ==
    { <<>>,
      << HostRec(1, "host1", <<"192.0.2.1">>, "00:11:22:33:44:55", 3600) >>,
      << HostRec(1, "host2", <<"192.0.2.2">>, "", -1),
         HostRec(2, "host1", <<"192.0.2.1", "192.0.2.3">>, "", -1) >>,
      << HostRec(1, "host1", <<"192.0.2.1">>, "", -1),
         HostRec(2, "host1", <<"192.0.2.3">>, "", -1) >> }

Init ==
    /\ hosts \in InitHosts
    /\ hostsInit = hosts
    /\ pc = [p \in Procs |-> "idle"]
    /\ args = [p \in Procs |-> NoArgs]
    /\ conf_ok = [p \in Procs |-> TRUE]
    /\ loc = [p \in Procs |-> NoLoc]
    /\ calls = [p \in Procs |-> <<>>]
    /\ status = [p \in Procs |-> 0]
    /\ err = [p \in Procs |-> None]
    /\ ninv = 0
    /\ hosts0 = [p \in Procs |-> hosts]
    /\ succ = <<>>

(* ----------------------------- actions --------------------------------- *)

\* The invocation dies: grmbl (msg), or an uncaught exception.
Die(p, msg) ==
    /\ pc' = [pc EXCEPT ![p] = "done"]
    /\ status' = [status EXCEPT ![p] = 1]
    /\ err' = [err EXCEPT ![p] = Some(msg)]

\* main() returns: exit status 0.
Return(p) ==
    /\ pc' = [pc EXCEPT ![p] = "done"]
    /\ status' = [status EXCEPT ![p] = 0]
    /\ err' = [err EXCEPT ![p] = None]
    /\ succ' = Append(succ, [fqdn |-> args[p].fqdn, view |-> args[p].view,
                             ip |-> args[p].ip])

Goto(p, where) ==
    /\ pc' = [pc EXCEPT ![p] = where]
    /\ UNCHANGED <<status, err>>

Call(p, method, uri, body, ok) ==
    calls' = [calls EXCEPT ![p] =
                Append(@, [method |-> method, uri |-> uri,
                           body |-> body, ok |-> ok])]

\* A new process runs the tool: argument parsing, configfile, read_conf.
Start(p) ==
    /\ pc[p] \in {"idle", "done"}
    /\ ninv < MaxInvocations
    /\ \E fqdn \in FQDNs, ip \in IPs, view \in ViewArgs,
          config_file \in ConfigArgs, readable \in BOOLEAN :
         LET configfile == ConfigFileOf(config_file) IN
         /\ args' = [args EXCEPT ![p] =
                       [fqdn |-> fqdn, ip |-> ip, view |-> view,
                        config_file |-> config_file]]
         /\ conf_ok' = [conf_ok EXCEPT ![p] = readable]
         /\ loc' = [loc EXCEPT ![p] = [NoLoc EXCEPT !.configfile = configfile]]
         /\ IF configfile = Unbound
            THEN Die(p, "UnboundLocalError")
            ELSE IF ~readable
            THEN Die(p, "Cannot read configuration")
            ELSE /\ pc' = [pc EXCEPT ![p] = "resolve"]
                 /\ status' = [status EXCEPT ![p] = 0]
                 /\ err' = [err EXCEPT ![p] = None]
    /\ calls' = [calls EXCEPT ![p] = <<>>]
    /\ ninv' = ninv + 1
    /\ hosts0' = [hosts0 EXCEPT ![p] = hosts]
    /\ UNCHANGED <<hosts, hostsInit, succ>>

\* split_fqdn, get_idview and the three checks.
Resolve(p) ==
    /\ pc[p] = "resolve"
    /\ LET s == split_fqdn(args[p].fqdn)
           idview == get_idview(args[p].view)
           e == ResolveError(s.name, s.iddom, idview)
       IN  /\ loc' = [loc EXCEPT ![p].name = s.name, ![p].domain = s.domain,
                                 ![p].iddom = s.iddom,
                                 ![p].idview =
                                     IF s.name = None \/ s.iddom = None
                                     THEN None ELSE idview]
           /\ IF e = None THEN Goto(p, "lookup") ELSE Die(p, e[1])
    /\ UNCHANGED <<hosts, args, conf_ok, calls, ninv, hosts0, hostsInit, succ>>

\* GET /hosts with the query, test_answer, and the branch on len (j).
Lookup(p) ==
    /\ pc[p] = "lookup"
    /\ \E ok \in BOOLEAN :
         LET query == [name |-> loc[p].name[1], domain |-> loc[p].domain[1],
                       view |-> args[p].view]
             j == HostsMatching(hosts, query.name, query.domain, query.view)
         IN  /\ Call(p, "get", <<"hosts">>, query, ok)
             /\ IF ~ok
                THEN /\ Die(p, "API error")
                     /\ UNCHANGED loc
                ELSE /\ loc' = [loc EXCEPT ![p].j = j]
                     /\ IF BranchOn(Len(j)) = "toomany"
                        THEN Die(p, "Server error: host exists more than once")
                        ELSE Goto(p, BranchOn(Len(j)))
    /\ UNCHANGED <<hosts, args, conf_ok, ninv, hosts0, hostsInit, succ>>

\* Post without test_answer after the request.
PostUnchecked(p) ==
    /\ pc[p] = "post"
    /\ \E ok \in BOOLEAN :
         LET data == NewHostData(loc[p].name[1], loc[p].iddom[1],
                                 loc[p].idview[1], args[p].ip)
         IN  /\ loc' = [loc EXCEPT ![p].data = data]
             /\ Call(p, "post", <<"hosts">>, data, ok)
             /\ hosts' = IF ok THEN HostsAfterPost(hosts, data) ELSE hosts
             /\ Return(p)
    /\ UNCHANGED <<args, conf_ok, ninv, hosts0, hostsInit>>

\* The host does not exist: POST /hosts, test_answer, end of main().
Post(p) ==
    /\ pc[p] = "post"
    /\ \E ok \in BOOLEAN :
         LET data == NewHostData(loc[p].name[1], loc[p].iddom[1],
                                 loc[p].idview[1], args[p].ip)
         IN  /\ loc' = [loc EXCEPT ![p].data = data]
             /\ Call(p, "post", <<"hosts">>, data, ok)
             /\ IF ok
                THEN /\ hosts' = HostsAfterPost(hosts, data)
                     /\ Return(p)
                ELSE /\ Die(p, "API error")
                     /\ UNCHANGED <<hosts, succ>>
    /\ UNCHANGED <<args, conf_ok, ninv, hosts0, hostsInit>>

\* GetHost without test_answer after the request.
GetHostUnchecked(p) ==
    /\ pc[p] = "gethost"
    /\ \E ok \in BOOLEAN :
         LET idhost == loc[p].j[1].idhost IN
         /\ Call(p, "get", <<"hosts", idhost>>, None, ok)
         /\ loc' = [loc EXCEPT ![p].idhost = idhost, ![p].r = hosts[idhost]]
         /\ Goto(p, "put")
    /\ UNCHANGED <<hosts, args, conf_ok, ninv, hosts0, hostsInit, succ>>

\* The host exists: GET /hosts/{idhost}, test_answer.
GetHost(p) ==
    /\ pc[p] = "gethost"
    /\ \E ok \in BOOLEAN :
         LET idhost == loc[p].j[1].idhost IN
         /\ Call(p, "get", <<"hosts", idhost>>, None, ok)
         /\ IF ok
            THEN /\ loc' = [loc EXCEPT ![p].idhost = idhost,
                                       ![p].r = hosts[idhost]]
                 /\ Goto(p, "put")
            ELSE /\ loc' = [loc EXCEPT ![p].idhost = idhost]
                 /\ Die(p, "API error")
    /\ UNCHANGED <<hosts, args, conf_ok, ninv, hosts0, hostsInit, succ>>

\* data = r.json (), append, PUT /hosts/{idhost}, test_answer, end of main().
Put(p) ==
    /\ pc[p] = "put"
    /\ \E ok \in BOOLEAN :
         LET data == AppendAddr(loc[p].r, args[p].ip) IN
         /\ loc' = [loc EXCEPT ![p].data = data]
         /\ Call(p, "put", <<"hosts", loc[p].idhost>>, data, ok)
         /\ IF ok
            THEN /\ hosts' = HostsAfterPut(hosts, loc[p].idhost, data)
                 /\ Return(p)
            ELSE /\ Die(p, "API error")
                 /\ UNCHANGED <<hosts, succ>>
    /\ UNCHANGED <<args, conf_ok, ninv, hosts0, hostsInit>>

Step(p) ==
    \/ Start(p)
    \/ Resolve(p)
    \/ Lookup(p)
    \/ Post(p)
    \/ GetHost(p)
    \/ Put(p)

\* One invocation at a time.
Next == \E p \in SeqProcs : Step(p)

Spec == Init /\ [][Next]_vars

\* Invocations run as separate processes, interleaved at remote calls.
NextConc == \E p \in Procs : Step(p)

SpecConc == Init /\ [][NextConc]_vars

(* ------------------------- reading a finished run ----------------------- *)

Finished(p) == pc[p] = "done"

\* The name, domain and view an invocation asks about.
NameOf(p) == Head(args[p].fqdn)

DomainOf(p) == Tail(args[p].fqdn)

\* The hosts of table hs for the triple of invocation p.
TripleHosts(hs, p) == HostsMatching(hs, NameOf(p), DomainOf(p), args[p].view)

CallsBy(p, method) == SelectSeq(calls[p], LAMBDA c : c.method = method)

GetByIdCalls(p) ==
    SelectSeq(calls[p], LAMBDA c : c.method = "get" /\ Len(c.uri) = 2)

MutatingCalls(p) ==
    SelectSeq(calls[p], LAMBDA c : c.method \in {"post", "put"})

\* The lookup GET /hosts was issued and answered with success.
LookupAnswered(p) ==
    /\ Len(calls[p]) >= 1
    /\ calls[p][1].method = "get"
    /\ calls[p][1].uri = <<"hosts">>
    /\ calls[p][1].ok

\* The matches the lookup of a sequential invocation returned.
Matched(p) == TripleHosts(hosts0[p], p)

SameExceptAt(hs1, hs2, i) ==
    /\ Len(hs1) = Len(hs2)
    /\ \A k \in 1 .. Len(hs1) : k # i => hs1[k] = hs2[k]

(* ------------------------------- C1 ------------------------------------ *)

\* C1: when fqdn and view resolve and the lookup returns no match, a finished
\* invocation has issued exactly one POST /hosts and no PUT; the POST payload
\* carries the name, the resolved iddom and idview, empty mac, comment,
\* respname and respmail, idhinfo 0, iddhcpprof -1, ttl -1 and addr = [ip];
\* and once the POST is accepted exactly one host exists for the triple, its
\* address list being [ip].
C1_CreateOnNoMatch ==
    \A p \in SeqProcs :
        (Finished(p) /\ LookupAnswered(p) /\ Len(Matched(p)) = 0) =>
            /\ Len(CallsBy(p, "post")) = 1
            /\ Len(CallsBy(p, "put")) = 0
            /\ LET c == CallsBy(p, "post")[1] IN
               /\ c.uri = <<"hosts">>
               /\ c.body = [name       |-> NameOf(p),
                            iddom      |-> get_iddom(DomainOf(p))[1],
                            idview     |-> get_idview(args[p].view)[1],
                            mac        |-> "",
                            idhinfo    |-> 0,
                            comment    |-> "",
                            respname   |-> "",
                            respmail   |-> "",
                            iddhcpprof |-> -1,
                            ttl        |-> -1,
                            addr       |-> <<args[p].ip>>]
               /\ c.ok => /\ Len(TripleHosts(hosts, p)) = 1
                          /\ TripleHosts(hosts, p)[1].addr = <<args[p].ip>>
                          /\ Len(hosts) = Len(hosts0[p]) + 1

C1_Witness ==
    \E p \in SeqProcs :
        /\ Finished(p) /\ LookupAnswered(p) /\ Len(Matched(p)) = 0
        /\ Len(CallsBy(p, "post")) = 1
        /\ CallsBy(p, "post")[1].ok
        /\ Len(TripleHosts(hosts, p)) = 1

(* ------------------------------- C2 ------------------------------------ *)

\* C2: when the lookup returns exactly one match, no POST is issued, no host
\* is created and no host other than the match is modified; and when the
\* full record fetched by GET /hosts/{idhost} has address list A, the
\* invocation has issued that GET and then exactly one PUT /hosts/{idhost} to
\* the same id whose payload is the fetched record with addr = A followed by
\* ip and every other field unchanged; an accepted PUT leaves the host equal
\* to that payload.
C2_AppendOnOneMatch ==
    \A p \in SeqProcs :
        (Finished(p) /\ LookupAnswered(p) /\ Len(Matched(p)) = 1) =>
            LET id == Matched(p)[1].idhost
                fetched == hosts0[p][id]
            IN  /\ Len(CallsBy(p, "post")) = 0
                /\ SameExceptAt(hosts, hosts0[p], id)
                /\ Len(GetByIdCalls(p)) = 1
                /\ calls[p][2] = [method |-> "get", uri |-> <<"hosts", id>>,
                                  body |-> None, ok |-> calls[p][2].ok]
                /\ calls[p][2].ok =>
                     /\ Len(calls[p]) = 3
                     /\ calls[p][3].method = "put"
                     /\ calls[p][3].uri = <<"hosts", id>>
                     /\ calls[p][3].body =
                          [fetched EXCEPT !.addr = fetched.addr \o <<args[p].ip>>]
                     /\ hosts[id] = IF calls[p][3].ok
                                    THEN calls[p][3].body
                                    ELSE fetched

C2_Witness ==
    \E p \in SeqProcs :
        /\ Finished(p) /\ LookupAnswered(p) /\ Len(Matched(p)) = 1
        /\ Len(calls[p]) = 3
        /\ calls[p][3].method = "put"
        /\ calls[p][3].ok
        /\ Len(hosts) > 1
        /\ Len(hosts0[p][Matched(p)[1].idhost].addr) > 1
        /\ hosts[Matched(p)[1].idhost].addr =
               hosts0[p][Matched(p)[1].idhost].addr \o <<args[p].ip>>

(* ------------------------------- C3 ------------------------------------ *)

\* C3: when the lookup returns more than one match, the invocation ends with
\* an error, the lookup is the only remote call it has issued (no POST, no
\* GET /hosts/{id}, no PUT) and the host table is unchanged.
C3_TooManyIsFatal ==
    \A p \in SeqProcs :
        (Finished(p) /\ LookupAnswered(p) /\ Len(Matched(p)) > 1) =>
            /\ status[p] # 0
            /\ err[p] # None
            /\ Len(calls[p]) = 1
            /\ Len(MutatingCalls(p)) = 0
            /\ Len(GetByIdCalls(p)) = 0
            /\ hosts = hosts0[p]

C3_Witness ==
    \E p \in SeqProcs :
        /\ Finished(p) /\ LookupAnswered(p) /\ Len(Matched(p)) > 1
        /\ status[p] = 1

(* ------------------------------- C4 ------------------------------------ *)

NoName(p) == Len(args[p].fqdn) < 2

NoDomain(p) == ~ \E d \in Domains : d.name = DomainOf(p)

NoView(p) == ~ \E v \in Views : v.name = args[p].view

\* The configuration was loaded, so main() reached split_fqdn.
ConfLoaded(p) == args[p].config_file = None /\ conf_ok[p]

\* C4: when the name of the FQDN cannot be determined, its domain is not a
\* known domain or the view name is not known, the invocation ends with an
\* error without having issued any remote call (no lookup, no POST, no PUT)
\* and the host table is unchanged; the message is Invalid FQDN before
\* Unknown domain before Unknown view.
C4_ResolveFailureIsFatal ==
    \A p \in SeqProcs :
        (Finished(p) /\ (NoName(p) \/ NoDomain(p) \/ NoView(p))) =>
            /\ status[p] # 0
            /\ err[p] # None
            /\ calls[p] = <<>>
            /\ hosts = hosts0[p]
            /\ ConfLoaded(p) =>
                 err[p] = Some(IF NoName(p) THEN "Invalid FQDN"
                               ELSE IF NoDomain(p) THEN "Unknown domain"
                               ELSE "Unknown view")

C4_Witness ==
    \E p \in SeqProcs :
        /\ Finished(p) /\ ConfLoaded(p)
        /\ ~NoName(p) /\ NoDomain(p) /\ NoView(p)
        /\ err[p] = Some("Unknown domain")

(* ------------------------------- C5 ------------------------------------ *)

\* The invocation created a host holding the address.
Created(p) ==
    /\ Len(hosts) = Len(hosts0[p]) + 1
    /\ \A k \in 1 .. Len(hosts0[p]) : hosts[k] = hosts0[p][k]
    /\ hosts[Len(hosts)].addr = <<args[p].ip>>

\* The invocation appended the address to an existing host.
Appended(p) ==
    /\ Len(hosts) = Len(hosts0[p])
    /\ \E i \in 1 .. Len(hosts) :
         /\ hosts[i] = [hosts0[p][i] EXCEPT
                          !.addr = hosts0[p][i].addr \o <<args[p].ip>>]
         /\ \A k \in 1 .. Len(hosts) : k # i => hosts[k] = hosts0[p][k]

\* The invocation reported an error and changed nothing.
Failed(p) == err[p] # None /\ hosts = hosts0[p]

\* C5: a running invocation can always take its next step, and a finished
\* one has exactly one of three outcomes: a host created with the address
\* (exit 0), the address appended to an existing host (exit 0), or an error
\* reported (exit status not 0); the exit status is 0 exactly when the
\* invocation issued one create or update call and that call succeeded.
C5_OneOutcome ==
    \A p \in SeqProcs :
        /\ pc[p] \notin {"idle", "done"} => ENABLED Step(p)
        /\ Finished(p) =>
            /\ status[p] \in {0, 1}
            /\ status[p] = 0 <=> /\ Len(MutatingCalls(p)) = 1
                                 /\ MutatingCalls(p)[1].ok
            /\ status[p] = 0 => /\ err[p] = None
                                /\ Created(p) \/ Appended(p)
                                /\ ~(Created(p) /\ Appended(p))
            /\ status[p] # 0 => Failed(p) /\ ~Created(p) /\ ~Appended(p)

C5_Witness ==
    \E p \in SeqProcs :
        /\ Finished(p) /\ status[p] = 0 /\ Appended(p)
        /\ Len(MutatingCalls(p)) = 1

(* ------------------------------- C6 ------------------------------------ *)

\* C6: a remote call answered without success is the last call of its
\* invocation (so a failed lookup is followed by no POST, GET /hosts/{id} or
\* PUT, and a failed GET /hosts/{id} by no PUT), no call is issued twice, and
\* an invocation issues at most one mutating call (POST or PUT, never both).
C6_FailureIsFinal ==
    \A p \in SeqProcs :
        /\ \A i \in 1 .. Len(calls[p]) :
             ~calls[p][i].ok => /\ i = Len(calls[p])
                                /\ Finished(p)
                                /\ status[p] # 0
        /\ \A i, k \in 1 .. Len(calls[p]) :
             (i # k /\ calls[p][i].method = calls[p][k].method)
                 => calls[p][i].uri # calls[p][k].uri
        /\ Len(MutatingCalls(p)) <= 1

C6_Witness ==
    \E p \in SeqProcs :
        /\ Finished(p)
        /\ Len(calls[p]) = 2
        /\ calls[p][2].method = "get"
        /\ ~calls[p][2].ok

(* ------------------------------- C7 ------------------------------------ *)

Triples == {t \in FQDNs \X ViewArgs : Len(t[1]) >= 2}

HostsOfTriple(hs, t) == HostsMatching(hs, Head(t[1]), Tail(t[1]), t[2])

RECURSIVE IpsOf(_, _)
\* The addresses of the invocations of sequence s for triple t, in order.
IpsOf(s, t) ==
    IF s = <<>> THEN <<>>
    ELSE LET rest == IpsOf(SubSeq(s, 1, Len(s) - 1), t)
             last == s[Len(s)]
         IN  IF last.fqdn = t[1] /\ last.view = t[2]
             THEN Append(rest, last.ip) ELSE rest

Methods(p) == [i \in 1 .. Len(calls[p]) |-> calls[p][i].method]

\* C7: no host is ever deleted, and for a triple that had no host at first,
\* after n >= 1 successful sequential invocations with addresses ip_1..ip_n
\* exactly one host exists for it, with address list [ip_1, ..., ip_n] in
\* invocation order, duplicates kept; the first of these invocations issued
\* the lookup and a POST, every later one the lookup, GET /hosts/{id} and
\* PUT /hosts/{id}.
C7_Lifecycle ==
    /\ Len(hosts) >= Len(hostsInit)
    /\ \A t \in Triples :
         (HostsOfTriple(hostsInit, t) = <<>> /\ IpsOf(succ, t) # <<>>) =>
             /\ Len(HostsOfTriple(hosts, t)) = 1
             /\ HostsOfTriple(hosts, t)[1].addr = IpsOf(succ, t)
             /\ \A p \in SeqProcs :
                  (Finished(p) /\ status[p] = 0
                       /\ <<args[p].fqdn, args[p].view>> = t) =>
                      Methods(p) = IF Len(IpsOf(succ, t)) = 1
                                   THEN <<"get", "post">>
                                   ELSE <<"get", "get", "put">>

C7_Witness ==
    \E t \in Triples :
        /\ HostsOfTriple(hostsInit, t) = <<>>
        /\ Len(IpsOf(succ, t)) = 3
        /\ IpsOf(succ, t)[1] = IpsOf(succ, t)[2]
        /\ Len(HostsOfTriple(hosts, t)) = 1
        /\ HostsOfTriple(hosts, t)[1].addr = IpsOf(succ, t)

(* ------------------------------- C8 ------------------------------------ *)

\* C8: the configuration file is the default path when -c is absent and
\* CONFIG_FILE when -c CONFIG_FILE is given; with a readable CONFIG_FILE the
\* invocation goes on to the resolve, lookup, create-or-update flow.
C8_ConfigOverride ==
    \A p \in SeqProcs :
        pc[p] # "idle" =>
            /\ args[p].config_file = None =>
                 loc[p].configfile = Some(default_conf_filename)
            /\ args[p].config_file # None =>
                 /\ loc[p].configfile = args[p].config_file
                 /\ conf_ok[p] => err[p] # Some("UnboundLocalError")

(* ------------------------------- C9 ------------------------------------ *)

\* C9: an invocation whose configuration was loaded and whose FQDN resolves
\* fails with Unknown view exactly when the view name is not found; for a
\* view that is found, whatever its identifier, it goes on to the lookup.
C9_UnknownViewIffNotFound ==
    \A p \in SeqProcs :
        (Finished(p) /\ ConfLoaded(p) /\ ~NoName(p) /\ ~NoDomain(p)) =>
            /\ err[p] = Some("Unknown view") <=> NoView(p)
            /\ ~NoView(p) => Len(calls[p]) >= 1

(* ------------------------------- C10 ----------------------------------- *)

\* C10: when two invocations for the same triple, run as interleaved
\* processes, have both succeeded, there is at most one host for the triple
\* and its address list contains both addresses.
C10_ConcurrentSafe ==
    \A p, q \in Procs :
        (/\ p # q
         /\ Finished(p) /\ status[p] = 0 /\ Len(calls[p]) >= 2
         /\ Finished(q) /\ status[q] = 0 /\ Len(calls[q]) >= 2
         /\ args[p].fqdn = args[q].fqdn
         /\ args[p].view = args[q].view) =>
            /\ Len(TripleHosts(hosts, p)) <= 1
            /\ \A i \in 1 .. Len(TripleHosts(hosts, p)) :
                 \A a \in {args[p].ip, args[q].ip} :
                    \E k \in 1 .. Len(TripleHosts(hosts, p)[i].addr) :
                       TripleHosts(hosts, p)[i].addr[k] = a

====
